---- MODULE Spec2Model ----
(***************************************************************************)
(* Device registry of openstack-iot: the SQLAlchemy storage backend        *)
(* (iot/db/sqlalchemy/api.py, models.py) and the Device domain object      *)
(* (iot/objects/device.py) as a state machine over the device table.       *)
(***************************************************************************)
EXTENDS Integers, Sequences, FiniteSets, TLC

(***************************************************************************)
(* Bounds of the model.                                                    *)
(***************************************************************************)
\* ids range over 1..MaxId (the Integer primary key is unbounded in the code)
MaxId == 2
\* the device table holds at most MaxRows rows
MaxRows == 2
\* page sizes requested while listing range over 1..MaxLimit
MaxLimit == 2

(***************************************************************************)
(* Values.                                                                 *)
(***************************************************************************)
\* Python None / SQL NULL
NULL == "<null>"

\* columns of the device table
Columns == {"id", "project_id", "user_id", "uuid", "name", "desc"}

\* Device.fields of the domain object
fields == {"id", "uuid", "name", "project_id", "user_id", "image_id"}

\* UUID-shaped strings that occur in the model
UUIDs == {"bd9431c1-8d69-4ad3-803a-8d4a6b89fd36",
          "5d12f6fd-a196-4bf0-ae4c-1f639a523a52",
          "1be26c0b-03f2-4d2e-ae87-c02d7f33c123"}

\* values of the name column, with their collation rank (the ORDER BY order)
Names == {"sensor1", "sensor2"}
NameRank == [n \in Names |-> IF n = "sensor1" THEN 1 ELSE 2]

\* str(i) of the ids of the model
IntStrings == {ToString(i) : i \in 1..MaxId}
IntOf(s) == CHOOSE i \in 1..MaxId : ToString(i) = s

\* identifiers handed to update_device, destroy_device and Device.get
Identities == IntStrings \cup UUIDs \cup {"not-an-id"}

\* an empty values mapping
NoValues == [c \in {} |-> NULL]

\* the values mappings handed to create_device
CreateValues ==
    {NoValues,
     [name |-> "sensor1", desc |-> "temp sensor"],
     [uuid |-> "", name |-> "sensor2"]}
    \cup {[uuid |-> u, name |-> "sensor1"] : u \in UUIDs}
    \cup {[id |-> i] : i \in 1..MaxId}
    \cup {[id |-> i, uuid |-> u, name |-> "sensor2"] : i \in 1..MaxId, u \in UUIDs}

\* the values mappings handed to update_device
UpdateValues ==
    {NoValues,
     [name |-> "sensor2"],
     [name |-> NULL],
     [desc |-> "temp sensor"],
     [name |-> "sensor1", desc |-> NULL],
     [image_id |-> "img"],
     [provision_state |-> "active"]}
    \cup {[uuid |-> u] : u \in UUIDs}
    \cup {[uuid |-> u, name |-> "sensor2"] : u \in UUIDs}
    \cup {[id |-> i, name |-> "sensor1"] : i \in 1..MaxId}

(***************************************************************************)
(* State.                                                                  *)
(***************************************************************************)
VARIABLES
    store,   \* the rows of the device table
    last,    \* the call that completed last: its arguments and its outcome
    pager,   \* a client that lists the devices page by page
    store0,  \* the rows of the table when two concurrent calls began
    proc,    \* the concurrent calls: each one's arguments, position and outcome
    gone,    \* history: the identifier destroy_device last removed a device
             \* by, until a create_device makes a device with it ("" if none)
    dev,     \* a Device instance that a caller holds: the fields that are
             \* set on it and its change-set
    resp,    \* the request an API client made of the devices controller
             \* and the response it got
    fun,     \* a function of the API layer that was applied: its name, its
             \* arguments and its result
    rpc      \* a caller of the conductor API client: its call, the request
             \* on the conductor's topic, what the handler did, the reply

vars == <<store, last, pager, store0, proc, gone, dev, resp, fun, rpc>>

\* the outcome of a call that raised nothing
OK == "ok"

\* utils.is_int_like: str(int(val)) == str(val)
is_int_like(value) == value \in IntStrings

\* utils.is_uuid_like: str(uuid.UUID(val)) == val
is_uuid_like(value) == value \in UUIDs

\* utils.generate_uuid: the uuids a fresh uuid4 may be, given the rows present
generate_uuid(rows) == UUIDs \ {r.uuid : r \in rows}

\* the ids the table may assign to an inserted row that brings none
autoincrement(rows) == (1..MaxId) \ {r.id : r \in rows}

\* models.Device() after device.update(values): the columns named in values
\* are set, every other column is NULL; attributes that are no column do not
\* reach the table. The id is the one given or the one the table assigns.
NewRow(values, newid) ==
    [c \in Columns |->
        IF c = "id" THEN (IF "id" \in DOMAIN values THEN values["id"] ELSE newid)
        ELSE IF c \in DOMAIN values THEN values[c]
        ELSE NULL]

\* a device table whose only unique key is the primary key
DuplicateEntry_primary_key_only(rows, row) ==
    \E r \in rows : r.id = row.id

\* the primary key and UniqueConstraint('uuid') of the device table: whether
\* inserting row raises DBDuplicateEntry
DuplicateEntry(rows, row) ==
    \E r \in rows : r.id = row.id \/ r.uuid = row.uuid

\* values.get('uuid') is falsy
NoUuid(values) ==
    \/ "uuid" \notin DOMAIN values
    \/ values["uuid"] \in {NULL, ""}

\* create_device that merges the new row into the table instead of inserting
\* it: a row with the same id or uuid is replaced and nothing is raised
create_device_merge(rows, values, gen, newid) ==
    LET vals == IF NoUuid(values)
                THEN [c \in DOMAIN values \cup {"uuid"} |->
                         IF c = "uuid" THEN gen ELSE values[c]]
                ELSE values
        device == NewRow(vals, newid)
        same == {r \in rows : r.id = device.id \/ r.uuid = device.uuid}
    IN  [exc |-> OK, rows |-> (rows \ same) \cup {device}, ret |-> {device}]

\* Connection.create_device(values) on the table rows, with the uuid that
\* generate_uuid returns (if it is called) and the id the table assigns (if
\* values brings none): the outcome, the rows afterwards, the returned row
create_device(rows, values, gen, newid) ==
    LET vals == IF NoUuid(values)
                THEN [c \in DOMAIN values \cup {"uuid"} |->
                         IF c = "uuid" THEN gen ELSE values[c]]
                ELSE values
        device == NewRow(vals, newid)
    IN  IF DuplicateEntry(rows, device)
        THEN [exc |-> "DeviceAlreadyExists", rows |-> rows, ret |-> {}]
        ELSE [exc |-> OK, rows |-> rows \cup {device}, ret |-> {device}]

\* add_identity_filter as its docstring words it ("otherwise attempts to
\* filter results by UUID"), with no InvalidIdentity for other shapes
add_identity_filter_no_else(rows, value) ==
    IF is_int_like(value)
    THEN [exc |-> OK, path |-> "id", rows |-> {r \in rows : r.id = IntOf(value)}]
    ELSE [exc |-> OK, path |-> "uuid", rows |-> {r \in rows : r.uuid = value}]

\* add_identity_filter(query, value): the rows of the query that the filter
\* keeps, and the column it filters on
add_identity_filter(rows, value) ==
    IF is_int_like(value)
    THEN [exc |-> OK, path |-> "id", rows |-> {r \in rows : r.id = IntOf(value)}]
    ELSE IF is_uuid_like(value)
    THEN [exc |-> OK, path |-> "uuid", rows |-> {r \in rows : r.uuid = value}]
    ELSE [exc |-> "InvalidIdentity", path |-> "none", rows |-> {}]

\* the lock query without its "except NoResultFound" handler
LockQuery_unhandled(rows, device_id) ==
    LET q == add_identity_filter(rows, device_id)
    IN  IF q.exc # OK THEN [exc |-> q.exc, path |-> q.path, ref |-> {}]
        ELSE IF q.rows = {} THEN [exc |-> "NoResultFound", path |-> q.path, ref |-> {}]
        ELSE [exc |-> OK, path |-> q.path, ref |-> q.rows]

\* query.with_lockmode('update').one() of _do_update_device: the row the
\* update transaction reads and locks
LockQuery(rows, device_id) ==
    LET q == add_identity_filter(rows, device_id)
    IN  IF q.exc # OK THEN [exc |-> q.exc, path |-> q.path, ref |-> {}]
        ELSE IF q.rows = {} THEN [exc |-> "DeviceNotFound", path |-> q.path, ref |-> {}]
        ELSE [exc |-> OK, path |-> q.path, ref |-> q.rows]

\* ref.update(values): the attributes of the loaded row after the assignments
RefUpdate(ref, values) ==
    [c \in Columns |-> IF c \in DOMAIN values THEN values[c] ELSE ref[c]]

\* a flush that writes each changed column in a statement and a transaction
\* of its own and is cut short after the first one
Flush_column_by_column(rows, ref, values) ==
    LET changed == {c \in DOMAIN values \cap Columns : values[c] # ref[c]}
        target == {r \in rows : r.id = ref.id}
        cur == CHOOSE r \in target : TRUE
        one == CHOOSE c \in changed : TRUE
        new == [c \in Columns |-> IF c = one THEN values[c] ELSE cur[c]]
    IN  IF changed = {} \/ target = {}
        THEN [exc |-> OK, rows |-> rows, ret |-> {RefUpdate(ref, values)}]
        ELSE [exc |-> OK, rows |-> (rows \ target) \cup {new},
              ret |-> {RefUpdate(ref, values)}]

\* a flush whose UPDATE has no WHERE clause: the changed columns are written
\* to every row
Flush_no_where(rows, ref, values) ==
    LET changed == {c \in DOMAIN values \cap Columns : values[c] # ref[c]}
    IN  [exc |-> OK,
         rows |-> {[c \in Columns |-> IF c \in changed THEN values[c] ELSE r[c]] :
                      r \in rows},
         ret |-> {RefUpdate(ref, values)}]

\* the flush and commit that end the transaction of _do_update_device:
\* UPDATE device SET <the columns whose value differs from the loaded one>
\* WHERE id = <the loaded id>
Flush(rows, ref, values) ==
    LET changed == {c \in DOMAIN values \cap Columns : values[c] # ref[c]}
        target == {r \in rows : r.id = ref.id}
        cur == CHOOSE r \in target : TRUE
        new == [c \in Columns |-> IF c \in changed THEN values[c] ELSE cur[c]]
    IN  IF changed = {}
        THEN [exc |-> OK, rows |-> rows, ret |-> {RefUpdate(ref, values)}]
        ELSE IF target = {}
        THEN [exc |-> "StaleDataError", rows |-> rows, ret |-> {}]
        ELSE IF DuplicateEntry(rows \ target, new)
        THEN [exc |-> "DBDuplicateEntry", rows |-> rows, ret |-> {}]
        ELSE [exc |-> OK, rows |-> (rows \ target) \cup {new},
              ret |-> {RefUpdate(ref, values)}]

\* if 'provision_state' in values:
\*     values['provision_updated_at'] = timeutils.utcnow()
provision_updated_at(values) ==
    IF "provision_state" \in DOMAIN values
    THEN [k \in DOMAIN values \cup {"provision_updated_at"} |->
            IF k = "provision_updated_at" THEN "utcnow" ELSE values[k]]
    ELSE values

\* Connection._do_update_device(device_id, values), run without interruption
do_update_device(rows, device_id, values) ==
    LET q == LockQuery(rows, device_id)
    IN  IF q.exc # OK
        THEN [exc |-> q.exc, rows |-> rows, ret |-> {}, path |-> q.path]
        ELSE [path |-> q.path] @@ Flush(rows, CHOOSE r \in q.ref : TRUE,
                                        provision_updated_at(values))

\* update_device without its check for 'uuid' in values
update_device_unchecked(rows, device_id, values) ==
    do_update_device(rows, device_id, values)

\* Connection.update_device(device_id, values)
update_device(rows, device_id, values) ==
    IF "uuid" \in DOMAIN values
    THEN [exc |-> "InvalidParameterValue", rows |-> rows, ret |-> {},
          path |-> "none"]
    ELSE do_update_device(rows, device_id, values)

\* a destroy_device that does not look at the count of deleted rows
destroy_device_count_ignored(rows, device_id) ==
    LET q == add_identity_filter(rows, device_id)
    IN  IF q.exc # OK
        THEN [exc |-> q.exc, rows |-> rows, path |-> q.path]
        ELSE [exc |-> OK, rows |-> rows \ q.rows, path |-> q.path]

\* Connection.destroy_device(device_id)
destroy_device(rows, device_id) ==
    LET q == add_identity_filter(rows, device_id)
    IN  IF q.exc # OK
        THEN [exc |-> q.exc, rows |-> rows, path |-> q.path]
        ELSE IF Cardinality(q.rows) # 1
        THEN [exc |-> "DeviceNotFound", rows |-> rows, path |-> q.path]
        ELSE [exc |-> OK, rows |-> rows \ q.rows, path |-> q.path]

\* a query whose session deletes the rows it loaded
query_only_deleting(rows, loaded) == rows \ loaded

\* model_query(models.Device)...one() / .all() outside session.begin(): the
\* query loads rows into a session of its own, to which the call adds
\* nothing, in which it assigns no column and deletes no row, and which is
\* never flushed; the table after the call
query_only(rows, loaded) == rows

\* Connection.get_device_by_id(device_id)
get_device_by_id(rows, device_id) ==
    LET found == {r \in rows : r.id = device_id}
    IN  IF found = {} THEN [exc |-> "DeviceNotFound", ret |-> {}]
        ELSE [exc |-> OK, ret |-> found]

\* Connection.get_device_by_uuid(device_uuid)
get_device_by_uuid(rows, device_uuid) ==
    LET found == {r \in rows : r.uuid = device_uuid}
    IN  IF found = {} THEN [exc |-> "DeviceNotFound", ret |-> {}]
        ELSE [exc |-> OK, ret |-> found]

(***************************************************************************)
(* Listing: _paginate_query over oslo.db's paginate_query.                 *)
(***************************************************************************)
\* the sort keys get_device_list accepts in the model
SortKeys == {NULL, "id", "name"}
SortDirs == {"asc", "desc"}

\* sort_keys of _paginate_query: ['id'], with sort_key put first if it is
\* given and is not 'id'
sort_keys(sort_key) ==
    IF sort_key # NULL /\ sort_key # "id" THEN <<sort_key, "id">> ELSE <<"id">>

\* the position of a column value in the table's ORDER BY ... ASC: NULL sorts
\* before every value (SQLite, the default connection, and MySQL)
Rank(key, row) ==
    IF key = "id" THEN row.id
    ELSE IF row[key] = NULL THEN 0
    ELSE NameRank[row[key]]

\* SQL's  column > value  and  column < value : never true when either is NULL
SqlGreater(key, row, marker) ==
    /\ key = "id" \/ (row[key] # NULL /\ marker[key] # NULL)
    /\ Rank(key, row) > Rank(key, marker)

SqlLess(key, row, marker) ==
    /\ key = "id" \/ (row[key] # NULL /\ marker[key] # NULL)
    /\ Rank(key, row) < Rank(key, marker)

\* SQLAlchemy's  column == value : IS NULL when the value is None
SqlEqual(key, row, marker) == row[key] = marker[key]

\* whether row a comes before row b under ORDER BY keys, all in direction dir
RECURSIVE OrderedBefore(_, _, _, _)
OrderedBefore(a, b, keys, dir) ==
    IF keys = <<>> THEN FALSE
    ELSE LET k == Head(keys)
         IN  IF Rank(k, a) # Rank(k, b)
             THEN IF dir = "desc" THEN Rank(k, a) > Rank(k, b)
                                  ELSE Rank(k, a) < Rank(k, b)
             ELSE OrderedBefore(a, b, Tail(keys), dir)

\* query.order_by(...).all(): the rows as a sequence in that order
OrderBy(rows, keys, dir) ==
    [i \in 1..Cardinality(rows) |->
        CHOOSE r \in rows :
            Cardinality({x \in rows : OrderedBefore(x, r, keys, dir)}) = i - 1]

\* the marker criteria of paginate_query: for some i, the first i-1 sort keys
\* equal the marker's values and the i-th is beyond the marker's value
AfterMarker(row, marker, keys, dir) ==
    \E i \in 1..Len(keys) :
        /\ \A j \in 1..(i - 1) : SqlEqual(keys[j], row, marker)
        /\ IF dir = "desc" THEN SqlLess(keys[i], row, marker)
                            ELSE SqlGreater(keys[i], row, marker)

\* "if limit is not None: query.limit(limit)" on an ordered result; limit is
\* the set holding the number, empty for None
Limit(seq, limit) ==
    IF limit = {} THEN seq
    ELSE LET n == CHOOSE l \in limit : TRUE
         IN  IF Len(seq) <= n THEN seq ELSE SubSeq(seq, 1, n)

\* _paginate_query(models.Device, limit, marker, sort_key, sort_dir, query):
\* marker is the set holding the marker row, empty for None
paginate_query(rows, limit, marker, sort_key, sort_dir) ==
    LET keys == sort_keys(sort_key)
        kept == IF marker = {} THEN rows
                ELSE {r \in rows :
                        AfterMarker(r, CHOOSE m \in marker : TRUE, keys, sort_dir)}
    IN  Limit(OrderBy(kept, keys, sort_dir), limit)

\* Connection.get_device_list(filters=None, limit, marker, sort_key, sort_dir)
get_device_list(rows, limit, marker, sort_key, sort_dir) ==
    paginate_query(rows, limit, marker, sort_key, sort_dir)

\* Device._from_db_object(device, db_device): every field of Device.fields is
\* read from the row (db_device[field] is getattr on the row, which raises
\* AttributeError for a name that is no attribute of models.Device), then
\* obj_reset_changes() empties the change-set
from_db_object(db_device) ==
    IF \E field \in fields : field \notin DOMAIN db_device
    THEN [exc |-> "AttributeError", obj |-> {}]
    ELSE [exc |-> OK,
          obj |-> {[attrs |-> [field \in fields |-> db_device[field]],
                    changes |-> {}]}]

\* Device.get_by_id(context, device_id)
Device_get_by_id(rows, device_id) ==
    LET db == get_device_by_id(rows, device_id)
    IN  IF db.exc # OK
        THEN [exc |-> db.exc, path |-> "id", ret |-> {}, obj |-> {}]
        ELSE LET o == from_db_object(CHOOSE r \in db.ret : TRUE)
             IN  [exc |-> o.exc, path |-> "id", ret |-> db.ret, obj |-> o.obj]

\* Device.get_by_uuid(context, uuid)
Device_get_by_uuid(rows, uuid) ==
    LET db == get_device_by_uuid(rows, uuid)
    IN  IF db.exc # OK
        THEN [exc |-> db.exc, path |-> "uuid", ret |-> {}, obj |-> {}]
        ELSE LET o == from_db_object(CHOOSE r \in db.ret : TRUE)
             IN  [exc |-> o.exc, path |-> "uuid", ret |-> db.ret, obj |-> o.obj]

\* Device.get(context, device_id)
Device_get(rows, device_id) ==
    IF is_int_like(device_id)
    THEN Device_get_by_id(rows, IntOf(device_id))
    ELSE IF is_uuid_like(device_id)
    THEN Device_get_by_uuid(rows, device_id)
    ELSE [exc |-> "InvalidIdentity", path |-> "none", ret |-> {}, obj |-> {}]

\* Device(context): an instance on which no field is set
NoDevice == [attrs |-> NoValues, changes |-> {}]

\* setattr(self, field, value): the field is set and joins the change-set
SetField(self, field, value) ==
    [attrs |-> [f \in DOMAIN self.attrs \cup {field} |->
                    IF f = field THEN value ELSE self.attrs[f]],
     changes |-> self.changes \cup {field}]

\* self.obj_get_changes(): the changed fields with their values
obj_get_changes(self) == [f \in self.changes |-> self.attrs[f]]

\* self.obj_reset_changes()
obj_reset_changes(self) == [self EXCEPT !.changes = {}]

\* the models.Device object that create_device returns: the columns of the
\* inserted row, and as plain attributes the entries of values that name no
\* column (device.update(values) is setattr for every entry)
Inserted(row, values) ==
    [a \in Columns \cup DOMAIN values |->
        IF a \in Columns THEN row[a] ELSE values[a]]

\* Device.create(): the change-set goes to create_device, then the instance
\* is filled from the returned object. obj is the instance afterwards; it is
\* empty when _from_db_object raised part-way through its assignments
Device_create(rows, self, gen, newid) ==
    LET values == obj_get_changes(self)
        db == create_device(rows, values, gen, newid)
    IN  IF db.exc # OK
        THEN [exc |-> db.exc, rows |-> rows, values |-> values, ret |-> {},
              obj |-> {self}]
        ELSE LET o == from_db_object(Inserted(CHOOSE r \in db.ret : TRUE, values))
             IN  [exc |-> o.exc, rows |-> db.rows, values |-> values,
                  ret |-> db.ret, obj |-> o.obj]

\* a save that writes the whole record: every field that is set goes to
\* update_device
Device_save_whole_record(rows, self) ==
    LET updates == self.attrs
        db == update_device(rows, self.attrs["uuid"], updates)
    IN  IF db.exc # OK
        THEN [exc |-> db.exc, rows |-> rows, values |-> updates, obj |-> {self}]
        ELSE [exc |-> OK, rows |-> db.rows, values |-> updates,
              obj |-> {obj_reset_changes(self)}]

\* Device.save(): the change-set goes to update_device under self.uuid, then
\* the change-set is emptied
Device_save(rows, self) ==
    LET updates == obj_get_changes(self)
        db == update_device(rows, self.attrs["uuid"], updates)
    IN  IF db.exc # OK
        THEN [exc |-> db.exc, rows |-> rows, values |-> updates, obj |-> {self}]
        ELSE [exc |-> OK, rows |-> db.rows, values |-> updates,
              obj |-> {obj_reset_changes(self)}]

\* Device.refresh(): the device with self.uuid is loaded and every field
\* that is set on the instance and differs from the loaded one is assigned;
\* written is the set of the assigned fields
Device_refresh(rows, self) ==
    LET current == Device_get_by_uuid(rows, self.attrs["uuid"])
    IN  IF current.exc # OK
        THEN [exc |-> current.exc, obj |-> {self}, written |-> {}]
        ELSE LET cur == (CHOOSE o \in current.obj : TRUE).attrs
                 differ == {field \in fields \cap DOMAIN self.attrs :
                                self.attrs[field] # cur[field]}
             IN  [exc |-> OK,
                  obj |-> {[attrs |-> [f \in DOMAIN self.attrs |->
                                          IF f \in differ THEN cur[f]
                                          ELSE self.attrs[f]],
                            changes |-> self.changes \cup differ]},
                  written |-> differ]

(***************************************************************************)
(* iot/common/exception.py: the exception classes and the decorators that  *)
(* turn an exception of a controller into the response the client gets.    *)
(***************************************************************************)
\* no function has been applied
NoFun == [name |-> "none"]

\* the base class of each exception class of the module
Parent ==
    [ObjectNotFound |-> "IoTException",
     ObjectNotUnique |-> "IoTException",
     ResourceNotFound |-> "ObjectNotFound",
     ResourceExists |-> "ObjectNotUnique",
     AuthorizationFailure |-> "IoTException",
     Invalid |-> "IoTException",
     InvalidUUID |-> "Invalid",
     InvalidIdentity |-> "Invalid",
     HTTPNotFound |-> "ResourceNotFound",
     Conflict |-> "IoTException",
     InvalidState |-> "Conflict",
     InvalidParameterValue |-> "Invalid",
     NotAuthorized |-> "IoTException",
     OperationNotPermitted |-> "NotAuthorized",
     DeviceNotFound |-> "ResourceNotFound",
     DeviceAlreadyExists |-> "Conflict",
     KeystoneFailure |-> "IoTException"]

\* the classes whose body assigns code, with the value
OwnCode ==
    [IoTException |-> 500,
     ResourceNotFound |-> 404,
     ResourceExists |-> 409,
     Invalid |-> 400,
     Conflict |-> 409,
     NotAuthorized |-> 403]

IoTClasses == DOMAIN Parent \cup {"IoTException"}

\* exception classes that do not derive from IoTException
ForeignClasses == {"AttributeError", "NameError", "ClientSideError",
                   "DBDuplicateEntry"}

\* a class attribute lookup that sees only the class's own body, with the
\* default of IoTException for the rest
code_own_body_only(cls) ==
    IF cls \in DOMAIN OwnCode THEN OwnCode[cls] ELSE OwnCode["IoTException"]

\* excp.code: the code of the nearest class up the bases that assigns one
RECURSIVE code(_)
code(cls) ==
    IF cls \in DOMAIN OwnCode THEN OwnCode[cls] ELSE code(Parent[cls])

\* the messages exceptions carry in the model
Messages == {"Device 5d12f6fd could not be found.",
             "OperationalError: (1045) access denied for iot@10.77.206.83",
             "Unacceptable parameters."}

\* str(uuid.uuid4()): the correlation ids of the model
CorrelationIds == {"8f14e45f", "c9f0f895"}

OBFUSCATED_MSG ==
    "Your request could not be handled because of a problem in the server. Error Correlation id is: "

\* what the client gets
ClientResponse(status, text) == [status |-> status, text |-> text]

\* wrap_controller_exception with "> 500" for its threshold
wrap_controller_exception_above_500(excp, log_correlation_id) ==
    LET http_error_code ==
            IF excp.cls \in IoTClasses THEN code(excp.cls) ELSE 500
    IN  IF http_error_code > 500
        THEN ClientResponse(http_error_code, OBFUSCATED_MSG \o log_correlation_id)
        ELSE ClientResponse(http_error_code, excp.message)

\* wrap_controller_exception around a function that raised excp, with the
\* uuid4 it draws if it logs; func_server_error and func_client_error are
\* those of the wsme and of the pecan decorator, which build the same
\* status and text
wrap_controller_exception(excp, log_correlation_id) ==
    LET http_error_code ==
            IF excp.cls \in IoTClasses THEN code(excp.cls) ELSE 500
    IN  IF http_error_code >= 500
        THEN ClientResponse(http_error_code, OBFUSCATED_MSG \o log_correlation_id)
        ELSE ClientResponse(http_error_code, excp.message)

(***************************************************************************)
(* iot/api/controllers/v1/base.py: the value of a Query filter converted   *)
(* to the type the filter names.                                           *)
(***************************************************************************)
\* Query._supported_types
supported_types == {"integer", "float", "string", "boolean"}

\* the texts a Query carries as value in the model
QueryValues == {"1", "1.5", "true", "abc", "2014-11-04T12:00:00Z"}

\* the types a Query names in the model; "" is no type
QueryTypes == {"integer", "float", "string", "boolean", "datetime", "blob", ""}

\* Query._type_converters: each converter as the map from the texts it
\* accepts to its result (a number for int, a fraction for float, a boolean
\* for bool_from_string(strict=True), the text for six.text_type, the date
\* and time for parse_isotime); on any other text the converter raises
\* ValueError
type_converters ==
    [integer |-> [v \in {"1"} |-> 1],
     float |-> [v \in {"1", "1.5"} |->
                    IF v = "1" THEN [num |-> 1, den |-> 1]
                               ELSE [num |-> 3, den |-> 2]],
     boolean |-> [v \in {"1", "true"} |-> TRUE],
     string |-> [v \in QueryValues |-> v],
     datetime |-> [v \in {"2014-11-04T12:00:00Z"} |->
                    [year |-> 2014, month |-> 11, day |-> 4, hour |-> 12]]]

\* ast.literal_eval(self.value): the texts that are Python literals
literal_eval ==
    [v \in {"1", "1.5"} |->
        IF v = "1" THEN 1 ELSE [num |-> 3, den |-> 2]]

\* what "raise ClientSideError(msg)" in an except clause of
\* _get_value_as_type raises: the module imports wsme and wsme.exc but
\* binds no name ClientSideError
raise_ClientSideError == "NameError"

\* Query._get_value_as_type() of a Query with this value and type
get_value_as_type(value, type) ==
    IF type = ""
    THEN [exc |-> OK,
          converted |-> IF value \in DOMAIN literal_eval
                        THEN literal_eval[value] ELSE value]
    ELSE IF type \notin supported_types
    THEN [exc |-> raise_ClientSideError, converted |-> NULL]
    ELSE IF value \notin DOMAIN type_converters[type]
    THEN [exc |-> raise_ClientSideError, converted |-> NULL]
    ELSE [exc |-> OK, converted |-> type_converters[type][value]]

(***************************************************************************)
(* iot/conductor: the API client of the conductor and the handler that the *)
(* conductor service dispatches requests to.                               *)
(***************************************************************************)
\* a caller that has made no call
NoRpc == [pc |-> "idle", op |-> "none", kwargs |-> NoValues, queue |-> <<>>,
          handled |-> <<>>, driver |-> <<>>, reply |-> {}, exc |-> OK]

\* the methods of Handler with the keyword arguments each accepts besides ctxt
HandlerArgs ==
    [device_create |-> {"name", "device_uuid", "device"},
     device_list |-> {},
     device_delete |-> {"device_uuid"},
     device_show |-> {"device_uuid"}]

\* Handler.<name>(ctxt, **kwargs): every method logs one line and returns;
\* driver is the sequence of the operations it runs on the device driver
Handler(name, kwargs) ==
    IF name \notin DOMAIN HandlerArgs
    THEN [exc |-> "UnsupportedMethod", result |-> NULL, driver |-> <<>>]
    ELSE IF DOMAIN kwargs # HandlerArgs[name]
    THEN [exc |-> "TypeError", result |-> NULL, driver |-> <<>>]
    ELSE [exc |-> OK, result |-> NULL, driver |-> <<>>]

\* API.<op>(...): the requests the client puts on the conductor's topic
\* through self._call, and whether it runs the operation itself instead
API(op, kwargs) ==
    IF op = "device_list"
    THEN [sent |-> <<>>, local |-> TRUE]
    ELSE [sent |-> <<[name |-> op, kwargs |-> kwargs]>>, local |-> FALSE]

(***************************************************************************)
(* The devices controller: get_all and detail.                             *)
(***************************************************************************)
\* CONF.api.max_limit (1000 by default), small in the model
max_limit == MaxLimit

\* the sort directions validate_sort_dir accepts
SortDirs_valid == {"asc", "desc"}

\* api_utils.validate_limit(limit): the configured maximum when the limit is
\* unset or not positive, else the limit clamped to the maximum; limit is the
\* set holding the number, empty for None
validate_limit(limit) ==
    IF limit = {} THEN max_limit
    ELSE LET l == CHOOSE n \in limit : TRUE
         IN  IF l <= 0 THEN max_limit
             ELSE IF l > max_limit THEN max_limit ELSE l

\* Device._from_db_object_list(db_objects, cls, context)
from_db_object_list(db_objects) ==
    LET objs == [i \in 1..Len(db_objects) |-> from_db_object(db_objects[i])]
    IN  IF \E i \in 1..Len(objs) : objs[i].exc # OK
        THEN [exc |-> "AttributeError", objs |-> <<>>]
        ELSE [exc |-> OK,
              objs |-> [i \in 1..Len(objs) |-> CHOOSE o \in objs[i].obj : TRUE]]

\* Device.list(context, limit, marker, sort_key, sort_dir): marker is the set
\* holding the marker object, empty for None
Device_list(rows, limit, marker, sort_key, sort_dir) ==
    from_db_object_list(
        get_device_list(rows, {limit}, {m.attrs : m \in marker},
                        sort_key, sort_dir))

\* Collection.get_next(limit, ...): a link to the next page, which carries
\* the uuid of the last item as marker, if the collection is limit long
get_next(devices, limit) ==
    IF Len(devices) = limit
    THEN {devices[Len(devices)].attrs["uuid"]}
    ELSE {}

\* DeviceCollection.convert_with_links(rpc_devices, limit, ...): the list
\* comprehension names Devices, which the module does not define, for every
\* device it converts
convert_with_links(rpc_devices, limit) ==
    IF rpc_devices # <<>>
    THEN [exc |-> "NameError", devices |-> <<>>, next |-> {}]
    ELSE [exc |-> OK, devices |-> rpc_devices,
          next |-> get_next(rpc_devices, limit)]

\* a response of the controller: listed tells whether Device.list was called
Response(exc, listed, devices, next) ==
    [exc |-> exc, listed |-> listed, devices |-> devices, next |-> next]

\* DevicesController._get_devices_collection(marker, limit, sort_key,
\* sort_dir, ...): marker is the set holding the uuid, empty for None
get_devices_collection(rows, marker, limit, sort_key, sort_dir) ==
    LET lim == validate_limit(limit)
        marker_obj == Device_get_by_uuid(rows, CHOOSE m \in marker : TRUE)
    IN  IF sort_dir \notin SortDirs_valid
        THEN Response("ClientSideError", FALSE, <<>>, {})
        ELSE IF marker # {} /\ marker_obj.exc # OK
        THEN Response(marker_obj.exc, FALSE, <<>>, {})
        ELSE LET devices == Device_list(rows, lim,
                                        IF marker = {} THEN {} ELSE marker_obj.obj,
                                        sort_key, sort_dir)
                 coll == convert_with_links(devices.objs, lim)
             IN  IF devices.exc # OK
                 THEN Response(devices.exc, TRUE, <<>>, {})
                 ELSE Response(coll.exc, TRUE, coll.devices, coll.next)

\* a request with its response
Request(op, marker, limit, sort_key, sort_dir, res) ==
    [op |-> op, marker |-> marker, limit |-> limit, sort_key |-> sort_key,
     sort_dir |-> sort_dir] @@ res

\* the client has made no request
NoResponse ==
    Request("none", {}, {}, "id", "asc", Response(OK, FALSE, <<>>, {}))

\* the rows of a table that an identifier names: by id if it is
\* integer-shaped, by uuid if it is UUID-shaped
Named(rows, ident) ==
    IF is_int_like(ident) THEN {r \in rows : r.id = IntOf(ident)}
    ELSE IF is_uuid_like(ident) THEN {r \in rows : r.uuid = ident}
    ELSE {}

\* a completed call, as last records it
Call(op, ident, values, exc, pre, ret, path, obj) ==
    [op |-> op, ident |-> ident, values |-> values, exc |-> exc,
     pre |-> pre, ret |-> ret, path |-> path, obj |-> obj]

\* no call has completed since the caller took the last outcome
NoCall == Call("none", "", NoValues, OK, {}, {}, "none", {})

Idle == last = NoCall

\* the pager before its first request
NoPager == [phase |-> "idle", limit |-> 0, sort_key |-> NULL, sort_dir |-> "asc",
            page |-> <<>>, seen |-> <<>>]

\* the processes that call the storage backend concurrently
Procs == {1, 2}

\* a process that has not called yet
NoProc == [pc |-> "idle", op |-> "none", ident |-> "", values |-> NoValues,
           ref |-> {}, exc |-> OK]

Init ==
    /\ store = {}
    /\ last = NoCall
    /\ pager = NoPager
    /\ store0 = {}
    /\ proc = [p \in Procs |-> NoProc]
    /\ gone = ""
    /\ dev = NoDevice
    /\ resp = NoResponse
    /\ fun = NoFun
    /\ rpc = NoRpc

\* what the calls of the sequential specification leave alone
Others == <<pager, store0, proc, dev, resp, fun, rpc>>

\* the uuids generate_uuid may return to create_device(values); it is called
\* only when values brings no uuid
GenChoices(rows, values) ==
    IF NoUuid(values) THEN generate_uuid(rows) ELSE {values["uuid"]}

\* the ids the table may give the row of create_device(values)
IdChoices(rows, values) ==
    IF "id" \in DOMAIN values THEN {values["id"]} ELSE autoincrement(rows)

CreateDevice ==
    \E values \in CreateValues :
    \E gen \in GenChoices(store, values) :
    \E newid \in IdChoices(store, values) :
        LET res == create_device(store, values, gen, newid)
        IN  /\ Idle
            /\ Cardinality(res.rows) <= MaxRows
            /\ store' = res.rows
            /\ last' = Call("create_device", "", values, res.exc, store,
                            res.ret, "none", {})
            /\ gone' = IF Named(res.rows, gone) # {} THEN "" ELSE gone
            /\ UNCHANGED Others

UpdateDevice ==
    \E device_id \in Identities, values \in UpdateValues :
        LET res == update_device(store, device_id, values)
        IN  /\ Idle
            /\ store' = res.rows
            /\ last' = Call("update_device", device_id, values, res.exc, store,
                            res.ret, res.path, {})
            /\ UNCHANGED <<gone, Others>>

DestroyDevice ==
    \E device_id \in Identities :
        LET res == destroy_device(store, device_id)
        IN  /\ Idle
            /\ store' = res.rows
            /\ last' = Call("destroy_device", device_id, NoValues, res.exc, store,
                            {}, res.path, {})
            /\ gone' = IF res.exc = OK THEN device_id ELSE gone
            /\ UNCHANGED Others

GetDeviceById ==
    \E device_id \in 1..MaxId :
        LET res == get_device_by_id(store, device_id)
        IN  /\ Idle
            /\ store' = query_only(store, res.ret)
            /\ last' = Call("get_device_by_id", ToString(device_id), NoValues,
                            res.exc, store, res.ret, "id", {})
            /\ UNCHANGED <<gone, Others>>

GetDeviceByUuid ==
    \E device_uuid \in UUIDs :
        LET res == get_device_by_uuid(store, device_uuid)
        IN  /\ Idle
            /\ store' = query_only(store, res.ret)
            /\ last' = Call("get_device_by_uuid", device_uuid, NoValues,
                            res.exc, store, res.ret, "uuid", {})
            /\ UNCHANGED <<gone, Others>>

DeviceGet ==
    \E device_id \in Identities :
        LET res == Device_get(store, device_id)
        IN  /\ Idle
            /\ store' = query_only(store, res.ret)
            /\ last' = Call("Device.get", device_id, NoValues,
                            res.exc, store, res.ret, res.path, res.obj)
            /\ UNCHANGED <<gone, Others>>

DeviceGetByUuid ==
    \E uuid \in UUIDs :
        LET res == Device_get_by_uuid(store, uuid)
        IN  /\ Idle
            /\ store' = query_only(store, res.ret)
            /\ last' = Call("Device.get_by_uuid", uuid, NoValues,
                            res.exc, store, res.ret, res.path, res.obj)
            /\ UNCHANGED <<gone, Others>>

\* the caller takes the outcome of the completed call
Return ==
    /\ ~Idle
    /\ last' = NoCall
    /\ UNCHANGED <<store, gone, Others>>

Next ==
    \/ CreateDevice
    \/ UpdateDevice
    \/ DestroyDevice
    \/ GetDeviceById
    \/ GetDeviceByUuid
    \/ DeviceGet
    \/ DeviceGetByUuid
    \/ Return

Spec == Init /\ [][Next]_vars

(***************************************************************************)
(* A client that pages through get_device_list over a table that does not  *)
(* change: each request passes the last row of the previous page as marker. *)
(***************************************************************************)
\* the tables the listing runs over: rows with distinct ids and distinct uuids
PageRows ==
    {[id |-> i, project_id |-> NULL, user_id |-> NULL, uuid |-> u,
      name |-> n, desc |-> NULL] :
        i \in 1..MaxId, u \in UUIDs, n \in Names \cup {NULL}}

\* the tables of at most n rows
RECURSIVE StoresUpTo(_)
StoresUpTo(n) ==
    IF n = 0 THEN {{}}
    ELSE LET smaller == StoresUpTo(n - 1)
         IN  smaller \cup
             UNION {{s \cup {r} :
                        r \in {x \in PageRows :
                                 \A y \in s : y.id # x.id /\ y.uuid # x.uuid}} :
                    s \in smaller}

PageStores == StoresUpTo(MaxRows)

PageInit ==
    /\ store \in PageStores
    /\ last = NoCall
    /\ pager = NoPager
    /\ store0 = {}
    /\ proc = [p \in Procs |-> NoProc]
    /\ gone = ""
    /\ dev = NoDevice
    /\ resp = NoResponse
    /\ fun = NoFun
    /\ rpc = NoRpc

\* the pager after a request that returned page
Paged(limit, sort_key, sort_dir, seen, page) ==
    [phase |-> IF Len(page) < limit THEN "done" ELSE "paging",
     limit |-> limit, sort_key |-> sort_key, sort_dir |-> sort_dir,
     page |-> page, seen |-> seen \o page]

FirstPage ==
    \E limit \in 1..MaxLimit, sort_key \in SortKeys, sort_dir \in SortDirs :
        /\ pager.phase = "idle"
        /\ pager' = Paged(limit, sort_key, sort_dir, <<>>,
                          get_device_list(store, {limit}, {}, sort_key, sort_dir))
        /\ UNCHANGED <<store, last, store0, proc, gone, dev, resp, fun, rpc>>

NextPage ==
    /\ pager.phase = "paging"
    /\ pager' = Paged(pager.limit, pager.sort_key, pager.sort_dir, pager.seen,
                      get_device_list(store, {pager.limit},
                                      {pager.page[Len(pager.page)]},
                                      pager.sort_key, pager.sort_dir))
    /\ UNCHANGED <<store, last, store0, proc, gone, dev, resp, fun, rpc>>

PageNext ==
    \/ FirstPage
    \/ NextPage

PageSpec == PageInit /\ [][PageNext]_vars

(***************************************************************************)
(* Two calls of the storage backend that run concurrently, each in its own *)
(* session and transaction, over a table that holds some devices.          *)
(***************************************************************************)
\* the tables the concurrent calls start from
ConcStores ==
    {s \in PageStores : s # {} /\ \A r \in s : r.name = "sensor1"}

\* the identifiers and values mappings the concurrent calls are made with
ConcIdentities == IntStrings \cup UUIDs

ConcValues ==
    {[name |-> "sensor2"],
     [desc |-> "temp sensor"],
     [name |-> "sensor1", desc |-> "temp sensor"],
     [name |-> "sensor2", desc |-> "temp sensor"],
     [uuid |-> CHOOSE u \in UUIDs : TRUE]}
    \cup {[id |-> MaxId]}

ConcInit ==
    /\ store \in ConcStores
    /\ store0 = store
    /\ last = NoCall
    /\ pager = NoPager
    /\ proc = [p \in Procs |-> NoProc]
    /\ gone = ""
    /\ dev = NoDevice
    /\ resp = NoResponse
    /\ fun = NoFun
    /\ rpc = NoRpc

\* a lock query without with_lockmode('update'): no row is ever held
RowLocked_no_lockmode(p, row) == FALSE

\* with_lockmode('update'): whether a row is locked FOR UPDATE by the open
\* transaction of a process other than p
RowLocked(p, row) ==
    \E q \in Procs \ {p} :
        /\ proc[q].pc = "locked"
        /\ \E l \in proc[q].ref : l.id = row.id

\* a process after its call has ended with exc
Done(op, device_id, values, exc) ==
    [pc |-> "done", op |-> op, ident |-> device_id, values |-> values,
     ref |-> {}, exc |-> exc]

\* update_device up to the lock query of _do_update_device: the uuid check,
\* session.begin(), the identity filter and SELECT ... FOR UPDATE, which waits
\* while another transaction holds the row
UpdateLock(p) ==
    \E device_id \in ConcIdentities, values \in ConcValues :
        LET q == LockQuery(store, device_id)
        IN  /\ proc[p].pc = "idle"
            /\ IF "uuid" \in DOMAIN values
               THEN proc' = [proc EXCEPT ![p] =
                        Done("update_device", device_id, values,
                             update_device(store, device_id, values).exc)]
               ELSE IF q.exc # OK
               THEN proc' = [proc EXCEPT ![p] =
                        Done("update_device", device_id, values, q.exc)]
               ELSE /\ \A r \in q.ref : ~RowLocked(p, r)
                    /\ proc' = [proc EXCEPT ![p] =
                        [pc |-> "locked", op |-> "update_device",
                         ident |-> device_id, values |-> values,
                         ref |-> q.ref, exc |-> OK]]
            /\ UNCHANGED <<store, last, pager, store0, gone, dev, resp, fun, rpc>>

\* the rest of _do_update_device: ref.update(values), then the flush and the
\* commit that leave "with session.begin()", which release the row
UpdateCommit(p) ==
    LET ref == CHOOSE r \in proc[p].ref : TRUE
        res == Flush(store, ref, proc[p].values)
    IN  /\ proc[p].pc = "locked"
        /\ store' = res.rows
        /\ proc' = [proc EXCEPT ![p] =
                Done("update_device", proc[p].ident, proc[p].values, res.exc)]
        /\ UNCHANGED <<last, pager, store0, gone, dev, resp, fun, rpc>>

\* destroy_device in its own transaction: the DELETE waits while another
\* transaction holds a row it matches
ConcDestroy(p) ==
    \E device_id \in ConcIdentities :
        LET q == add_identity_filter(store, device_id)
            res == destroy_device(store, device_id)
        IN  /\ proc[p].pc = "idle"
            /\ \A r \in q.rows : ~RowLocked(p, r)
            /\ store' = res.rows
            /\ proc' = [proc EXCEPT ![p] =
                    Done("destroy_device", device_id, NoValues, res.exc)]
            /\ UNCHANGED <<last, pager, store0, gone, dev, resp, fun, rpc>>

\* a process after its read has ended: ref holds the rows it was given
Read(op, ident, exc, ret) ==
    [pc |-> "done", op |-> op, ident |-> ident, values |-> NoValues,
     ref |-> ret, exc |-> exc]

\* the set of the elements of a sequence
Range(seq) == {seq[i] : i \in 1..Len(seq)}

\* get_device_by_id, get_device_by_uuid and get_device_list in a session of
\* their own: a plain SELECT, which takes no lock and waits for none, and
\* sees what is committed
ConcRead(p) ==
    /\ proc[p].pc = "idle"
    /\ \/ \E device_id \in 1..MaxId :
            LET res == get_device_by_id(store, device_id)
            IN  proc' = [proc EXCEPT ![p] =
                    Read("get_device_by_id", ToString(device_id), res.exc, res.ret)]
       \/ \E device_uuid \in UUIDs :
            LET res == get_device_by_uuid(store, device_uuid)
            IN  proc' = [proc EXCEPT ![p] =
                    Read("get_device_by_uuid", device_uuid, res.exc, res.ret)]
       \/ proc' = [proc EXCEPT ![p] =
                Read("get_device_list", "", OK,
                     Range(get_device_list(store, {}, {}, NULL, "asc")))]
    /\ UNCHANGED <<store, last, pager, store0, gone, dev, resp, fun, rpc>>

ConcNext ==
    \E p \in Procs :
        \/ UpdateLock(p)
        \/ UpdateCommit(p)
        \/ ConcDestroy(p)
        \/ ConcRead(p)

ConcSpec == ConcInit /\ [][ConcNext]_vars

(***************************************************************************)
(* A caller that holds one Device instance: it sets fields on it and calls  *)
(* create, save and refresh, over a table that holds at most one device     *)
(* at the start.                                                            *)
(***************************************************************************)
ObjStores ==
    {s \in PageStores : Cardinality(s) <= 1 /\ \A r \in s : r.name = "sensor1"}

\* the values a caller assigns to the fields of the instance
FieldValues ==
    [uuid |-> UUIDs \ {"1be26c0b-03f2-4d2e-ae87-c02d7f33c123"},
     name |-> {"sensor2"},
     id |-> {MaxId},
     image_id |-> {"img"}]

ObjInit ==
    /\ store \in ObjStores
    /\ last = NoCall
    /\ pager = NoPager
    /\ store0 = {}
    /\ proc = [p \in Procs |-> NoProc]
    /\ gone = ""
    /\ dev = NoDevice
    /\ resp = NoResponse
    /\ fun = NoFun
    /\ rpc = NoRpc

ObjOthers == <<pager, store0, proc, gone, resp, fun, rpc>>

\* device.<field> = value
DeviceSet ==
    \E field \in DOMAIN FieldValues :
    \E value \in FieldValues[field] :
        /\ Idle
        /\ dev' = SetField(dev, field, value)
        /\ UNCHANGED <<store, last, ObjOthers>>

\* device.obj_reset_changes()
DeviceResetChanges ==
    /\ Idle
    /\ dev.changes # {}
    /\ dev' = obj_reset_changes(dev)
    /\ UNCHANGED <<store, last, ObjOthers>>

\* device.create(); a caller whose instance was left half-assigned by a
\* raising _from_db_object goes on with a new instance
DeviceCreate ==
    LET values == obj_get_changes(dev)
    IN  \E gen \in GenChoices(store, values) :
        \E newid \in IdChoices(store, values) :
            LET res == Device_create(store, dev, gen, newid)
            IN  /\ Idle
                /\ Cardinality(res.rows) <= MaxRows
                /\ store' = res.rows
                /\ dev' = IF res.obj = {} THEN NoDevice
                           ELSE CHOOSE o \in res.obj : TRUE
                /\ last' = Call("Device.create", "", res.values, res.exc, store,
                                res.ret, "none", {dev})
                /\ UNCHANGED ObjOthers

\* device.save() on an instance whose uuid is set
DeviceSave ==
    LET res == Device_save(store, dev)
    IN  /\ Idle
        /\ "uuid" \in DOMAIN dev.attrs
        /\ store' = res.rows
        /\ dev' = CHOOSE o \in res.obj : TRUE
        /\ last' = Call("Device.save", dev.attrs["uuid"], res.values, res.exc,
                        store, {}, "uuid", {dev})
        /\ UNCHANGED ObjOthers

\* device.refresh() on an instance whose uuid is set
DeviceRefresh ==
    LET res == Device_refresh(store, dev)
    IN  /\ Idle
        /\ "uuid" \in DOMAIN dev.attrs
        /\ store' = query_only(store, Named(store, dev.attrs["uuid"]))
        /\ dev' = CHOOSE o \in res.obj : TRUE
        /\ last' = Call("Device.refresh", dev.attrs["uuid"],
                        [f \in res.written |-> NULL], res.exc,
                        store, Named(store, dev.attrs["uuid"]), "uuid", {dev})
        /\ UNCHANGED ObjOthers

ObjNext ==
    \/ DeviceSet
    \/ DeviceResetChanges
    \/ DeviceCreate
    \/ DeviceSave
    \/ DeviceRefresh
    \/ Return

ObjSpec == ObjInit /\ [][ObjNext]_vars

(***************************************************************************)
(* An API client that asks the devices controller for a page of the        *)
(* listing, over a table that does not change.                             *)
(***************************************************************************)
\* the query parameters of the requests
Markers == {{}} \cup {{u} : u \in UUIDs}
Limits == {{}} \cup {{n} : n \in 0..(MaxLimit + 1)}
RequestSortDirs == SortDirs_valid \cup {"up"}

CtlInit ==
    /\ store \in PageStores
    /\ last = NoCall
    /\ pager = NoPager
    /\ store0 = {}
    /\ proc = [p \in Procs |-> NoProc]
    /\ gone = ""
    /\ dev = NoDevice
    /\ resp = NoResponse
    /\ fun = NoFun
    /\ rpc = NoRpc

\* GET /devices
GetAll ==
    \E marker \in Markers, limit \in Limits :
    \E sort_key \in {"id", "name"}, sort_dir \in RequestSortDirs :
        /\ resp.op = "none"
        /\ resp' = Request("get_all", marker, limit, sort_key, sort_dir,
                    get_devices_collection(store, marker, limit, sort_key, sort_dir))
        /\ UNCHANGED <<store, last, pager, store0, proc, gone, dev, fun, rpc>>

\* GET /devices/detail
Detail ==
    \E marker \in Markers, limit \in Limits :
    \E sort_key \in {"id", "name"}, sort_dir \in RequestSortDirs :
        /\ resp.op = "none"
        /\ resp' = Request("detail", marker, limit, sort_key, sort_dir,
                    get_devices_collection(store, marker, limit, sort_key, sort_dir))
        /\ UNCHANGED <<store, last, pager, store0, proc, gone, dev, fun, rpc>>

CtlNext ==
    \/ GetAll
    \/ Detail

CtlSpec == CtlInit /\ [][CtlNext]_vars

(***************************************************************************)
(* The functions of the API layer, each applied once to arguments drawn    *)
(* from the sets of the model.                                             *)
(***************************************************************************)
FunInit ==
    /\ store = {}
    /\ last = NoCall
    /\ pager = NoPager
    /\ store0 = {}
    /\ proc = [p \in Procs |-> NoProc]
    /\ gone = ""
    /\ dev = NoDevice
    /\ resp = NoResponse
    /\ fun = NoFun
    /\ rpc = NoRpc

FunOthers == <<store, last, pager, store0, proc, gone, dev, resp, rpc>>

\* a controller method under wrap_wsme_controller_exception raises
WrapWsme ==
    \E cls \in IoTClasses \cup ForeignClasses, message \in Messages :
    \E id \in CorrelationIds :
        LET excp == [cls |-> cls, message |-> message]
        IN  /\ fun = NoFun
            /\ fun' = [name |-> "wrap_wsme_controller_exception",
                       excp |-> excp, id |-> id,
                       response |-> wrap_controller_exception(excp, id)]
            /\ UNCHANGED FunOthers

\* a controller method under wrap_pecan_controller_exception raises
WrapPecan ==
    \E cls \in IoTClasses \cup ForeignClasses, message \in Messages :
    \E id \in CorrelationIds :
        LET excp == [cls |-> cls, message |-> message]
        IN  /\ fun = NoFun
            /\ fun' = [name |-> "wrap_pecan_controller_exception",
                       excp |-> excp, id |-> id,
                       response |-> wrap_controller_exception(excp, id)]
            /\ UNCHANGED FunOthers

\* Query(value=value, type=type)._get_value_as_type()
GetValueAsType ==
    \E value \in QueryValues, type \in QueryTypes :
        /\ fun = NoFun
        /\ fun' = [name |-> "_get_value_as_type", value |-> value,
                   type |-> type,
                   result |-> get_value_as_type(value, type)]
        /\ UNCHANGED FunOthers

FunNext ==
    \/ WrapWsme
    \/ WrapPecan
    \/ GetValueAsType

FunSpec == FunInit /\ [][FunNext]_vars

(***************************************************************************)
(* The same client over tables in which two devices have the same name (or *)
(* both have none), beside at most one other device.                       *)
(***************************************************************************)
TieRows ==
    {[id |-> i, project_id |-> NULL, user_id |-> NULL, uuid |-> u,
      name |-> n, desc |-> NULL] :
        i \in 1..(MaxId + 1), u \in UUIDs, n \in Names \cup {NULL}}

TieStores ==
    {s \in {{a, b} \cup c : a \in TieRows, b \in TieRows,
                            c \in {{}} \cup {{r} : r \in TieRows}} :
        /\ \E a, b \in s : a.id < b.id /\ a.name = b.name
        /\ \A a, b \in s : (a.id = b.id \/ a.uuid = b.uuid) => a = b}

TieInit ==
    /\ store \in TieStores
    /\ last = NoCall
    /\ pager = NoPager
    /\ store0 = {}
    /\ proc = [p \in Procs |-> NoProc]
    /\ gone = ""
    /\ dev = NoDevice
    /\ resp = NoResponse
    /\ fun = NoFun
    /\ rpc = NoRpc

TieSpec == TieInit /\ [][PageNext]_vars

(***************************************************************************)
(* Two callers that each get hold of a Device instance, change a field of  *)
(* it and save it, concurrently, over a table that holds some devices.     *)
(***************************************************************************)
\* a caller that holds no instance yet; at is the place of its save among
\* the commits
NoCaller ==
    [pc |-> "idle", op |-> "none", ident |-> "", values |-> NoValues,
     ref |-> {}, exc |-> OK, obj |-> {}, at |-> 0]

\* the assignments a caller makes to its instance
Assignments ==
    {[field |-> "name", value |-> n] : n \in Names}
    \cup {[field |-> "project_id", value |-> "project-1"]}

SaveInit ==
    /\ store \in ConcStores
    /\ store0 = store
    /\ last = NoCall
    /\ pager = NoPager
    /\ proc = [p \in Procs |-> NoCaller]
    /\ gone = ""
    /\ dev = NoDevice
    /\ resp = NoResponse
    /\ fun = NoFun
    /\ rpc = NoRpc

SaveOthers == <<last, pager, store0, gone, dev, resp, fun, rpc>>

\* Device.get_by_uuid(context, uuid): the caller holds the loaded instance,
\* or the call raised
Load(p) ==
    \E uuid \in UUIDs :
        LET res == Device_get_by_uuid(store, uuid)
        IN  /\ proc[p].pc = "idle"
            /\ proc' = [proc EXCEPT ![p] =
                    [NoCaller EXCEPT !.pc = IF res.exc = OK THEN "held" ELSE "done",
                                     !.op = "Device.get_by_uuid",
                                     !.ident = uuid,
                                     !.exc = res.exc,
                                     !.obj = res.obj]]
            /\ store' = query_only(store, res.ret)
            /\ UNCHANGED SaveOthers

\* Device(context) with the uuid assigned and the change-set emptied: an
\* instance that was not loaded
Build(p) ==
    \E uuid \in UUIDs :
        /\ proc[p].pc = "idle"
        /\ proc' = [proc EXCEPT ![p] =
                [NoCaller EXCEPT !.pc = "held",
                                 !.op = "Device",
                                 !.ident = uuid,
                                 !.obj = {obj_reset_changes(
                                            SetField(NoDevice, "uuid", uuid))}]]
        /\ UNCHANGED <<store, SaveOthers>>

\* the caller assigns a field of its instance
Change(p) ==
    \E a \in Assignments :
        /\ proc[p].pc = "held"
        /\ proc' = [proc EXCEPT ![p].pc = "changed",
                                ![p].obj = {SetField(o, a.field, a.value) :
                                               o \in proc[p].obj}]
        /\ UNCHANGED <<store, SaveOthers>>

\* Device.save() up to the lock query of _do_update_device, which waits
\* while another transaction holds the row
SaveLock(p) ==
    LET self == CHOOSE o \in proc[p].obj : TRUE
        updates == obj_get_changes(self)
        q == LockQuery(store, self.attrs["uuid"])
    IN  /\ proc[p].pc = "changed"
        /\ IF "uuid" \in DOMAIN updates \/ q.exc # OK
           THEN proc' = [proc EXCEPT ![p].pc = "done",
                                    ![p].values = updates,
                                    ![p].exc = Device_save(store, self).exc]
           ELSE /\ \A r \in q.ref : ~RowLocked(p, r)
                /\ proc' = [proc EXCEPT ![p].pc = "locked",
                                        ![p].values = updates,
                                        ![p].ref = q.ref]
        /\ UNCHANGED <<store, SaveOthers>>

\* the rest of Device.save(): ref.update(updates), the flush and the commit,
\* which release the row, then obj_reset_changes()
SaveCommit(p) ==
    LET ref == CHOOSE r \in proc[p].ref : TRUE
        res == Flush(store, ref, proc[p].values)
    IN  /\ proc[p].pc = "locked"
        /\ store' = res.rows
        /\ proc' = [proc EXCEPT
                ![p].pc = "done",
                ![p].ref = {},
                ![p].exc = res.exc,
                ![p].at = 1 + Cardinality({q \in Procs : proc[q].at > 0}),
                ![p].obj = IF res.exc = OK
                           THEN {obj_reset_changes(o) : o \in proc[p].obj}
                           ELSE proc[p].obj]
        /\ UNCHANGED SaveOthers

SaveNext ==
    \E p \in Procs :
        \/ Load(p)
        \/ Build(p)
        \/ Change(p)
        \/ SaveLock(p)
        \/ SaveCommit(p)

SaveSpec == SaveInit /\ [][SaveNext]_vars

(***************************************************************************)
(* The reads of the storage backend and of Device, over every table of at  *)
(* most MaxRows rows, by a caller that holds an instance with a uuid.      *)
(***************************************************************************)
\* the instances the caller holds: the uuid is set, the name may be
ReadDevices ==
    {SetField(NoDevice, "uuid", u) : u \in UUIDs}
    \cup {SetField(SetField(NoDevice, "uuid", u), "name", "sensor2") :
              u \in UUIDs}

ReadInit ==
    /\ store \in PageStores
    /\ last = NoCall
    /\ pager = NoPager
    /\ store0 = {}
    /\ proc = [p \in Procs |-> NoProc]
    /\ gone = ""
    /\ dev \in ReadDevices
    /\ resp = NoResponse
    /\ fun = NoFun
    /\ rpc = NoRpc

\* the arguments of a listing, as last records them
ListValues(limit, sort_key, sort_dir) ==
    [limit |-> limit, sort_key |-> sort_key, sort_dir |-> sort_dir]

\* dbapi.get_device_list(limit, marker, sort_key, sort_dir); marker is a row
\* of the table or None
GetDeviceList ==
    \E limit \in 1..MaxLimit, sort_key \in SortKeys, sort_dir \in SortDirs,
       marker \in {{}} \cup {{r} : r \in store} :
        LET page == get_device_list(store, {limit}, marker, sort_key, sort_dir)
        IN  /\ Idle
            /\ store' = query_only(store, Range(page))
            /\ last' = Call("get_device_list",
                            IF marker = {} THEN ""
                            ELSE (CHOOSE m \in marker : TRUE).uuid,
                            ListValues(limit, sort_key, sort_dir),
                            OK, store, Range(page), "none", {})
            /\ UNCHANGED <<gone, Others>>

\* Device.list(context, limit, marker, sort_key, sort_dir); marker is an
\* instance that carries the fields of a row, or None
DeviceList ==
    \E limit \in 1..MaxLimit, sort_key \in SortKeys, sort_dir \in SortDirs,
       marker \in {{}} \cup {{[attrs |-> r, changes |-> {}]} : r \in store} :
        LET res == Device_list(store, limit, marker, sort_key, sort_dir)
            page == get_device_list(store, {limit}, {m.attrs : m \in marker},
                                    sort_key, sort_dir)
        IN  /\ Idle
            /\ store' = query_only(store, Range(page))
            /\ last' = Call("Device.list",
                            IF marker = {} THEN ""
                            ELSE (CHOOSE m \in marker : TRUE).attrs.uuid,
                            ListValues(limit, sort_key, sort_dir),
                            res.exc, store, Range(page), "none",
                            Range(res.objs))
            /\ UNCHANGED <<gone, Others>>

ReadNext ==
    \/ GetDeviceById
    \/ GetDeviceByUuid
    \/ GetDeviceList
    \/ DeviceGet
    \/ DeviceGetByUuid
    \/ DeviceList
    \/ DeviceRefresh
    \/ Return

ReadSpec == ReadInit /\ [][ReadNext]_vars

(***************************************************************************)
(* A caller of the conductor API client, the conductor's topic and the     *)
(* conductor service with its handler.                                     *)
(***************************************************************************)
\* the calls made of the client: the operation with its arguments
RpcCalls ==
    {[op |-> "device_create",
      kwargs |-> [name |-> n, device_uuid |-> u, device |-> d]] :
        n \in Names, u \in UUIDs, d \in {"raspberry-pi", "arduino"}}
    \cup {[op |-> o, kwargs |-> [device_uuid |-> u]] :
        o \in {"device_delete", "device_show"}, u \in UUIDs}
    \cup {[op |-> "device_list",
           kwargs |-> [limit |-> l, marker |-> NULL, sort_key |-> k,
                       sort_dir |-> d]] :
        l \in 1..MaxLimit, k \in {"id", "name"}, d \in SortDirs}

RpcInit ==
    /\ store \in ObjStores
    /\ last = NoCall
    /\ pager = NoPager
    /\ store0 = {}
    /\ proc = [p \in Procs |-> NoProc]
    /\ gone = ""
    /\ dev = NoDevice
    /\ resp = NoResponse
    /\ fun = NoFun
    /\ rpc = NoRpc

RpcOthers == <<store, last, pager, store0, proc, gone, dev, resp, fun>>

\* the caller calls a method of the client: a method that uses self._call
\* puts its request on the topic and blocks; device_list runs Device.list in
\* the caller's process and returns what it returns
ClientCall ==
    \E call \in RpcCalls :
        LET api == API(call.op, call.kwargs)
            listed == Device_list(store, call.kwargs["limit"], {},
                                  call.kwargs["sort_key"], call.kwargs["sort_dir"])
        IN  /\ rpc.pc = "idle"
            /\ rpc' = IF api.local
                      THEN [rpc EXCEPT !.pc = "returned", !.op = call.op,
                                       !.kwargs = call.kwargs,
                                       !.reply = {listed.objs},
                                       !.exc = listed.exc]
                      ELSE [rpc EXCEPT !.pc = "blocked", !.op = call.op,
                                       !.kwargs = call.kwargs,
                                       !.queue = api.sent]
            /\ UNCHANGED RpcOthers

\* the conductor service takes a request from its topic, dispatches it to
\* the handler method of that name and sends the reply
Dispatch ==
    /\ rpc.queue # <<>>
    /\ LET msg == Head(rpc.queue)
           res == Handler(msg.name, msg.kwargs)
       IN  rpc' = [rpc EXCEPT !.queue = Tail(rpc.queue),
                              !.handled = Append(rpc.handled, msg),
                              !.driver = rpc.driver \o res.driver,
                              !.reply = IF rpc.pc = "blocked"
                                        THEN {res.result} ELSE rpc.reply,
                              !.exc = IF rpc.pc = "blocked"
                                      THEN res.exc ELSE rpc.exc]
    /\ UNCHANGED RpcOthers

\* the reply reaches the caller blocked in self._call
Reply ==
    /\ rpc.pc = "blocked"
    /\ rpc.queue = <<>>
    /\ rpc.handled # <<>>
    /\ rpc' = [rpc EXCEPT !.pc = "returned"]
    /\ UNCHANGED RpcOthers

\* no reply within the timeout of the call: self._call raises
Timeout ==
    /\ rpc.pc = "blocked"
    /\ rpc' = [rpc EXCEPT !.pc = "returned", !.exc = "MessagingTimeout",
                          !.reply = {}]
    /\ UNCHANGED RpcOthers

RpcNext ==
    \/ ClientCall
    \/ Dispatch
    \/ Reply
    \/ Timeout

RpcSpec == RpcInit /\ [][RpcNext]_vars

(***************************************************************************)
(* Properties.                                                             *)
(***************************************************************************)
UuidsOf(rows) == {r.uuid : r \in rows}

C2_PagesAreTheListing ==
    LET full == get_device_list(store, {}, {}, pager.sort_key, pager.sort_dir)
    IN  pager.phase # "idle" =>
            /\ Len(pager.page) <= pager.limit
            /\ Len(pager.seen) <= Len(full)
            /\ pager.seen = SubSeq(full, 1, Len(pager.seen))
            /\ pager.phase = "done" => pager.seen = full

\* C3: create_device with the uuid of an existing row fails with
\* DeviceAlreadyExists and leaves the table as it was.
C3_DuplicateUuidRejected ==
    (/\ last.op = "create_device"
     /\ ~NoUuid(last.values)
     /\ last.values["uuid"] \in UuidsOf(last.pre))
    => (last.exc = "DeviceAlreadyExists" /\ store = last.pre)

C3_Witness ==
    /\ last.op = "create_device"
    /\ ~NoUuid(last.values)
    /\ last.values["uuid"] \in UuidsOf(last.pre)
    /\ "id" \notin DOMAIN last.values

\* C4: every create_device whose values bring no uuid (or an empty one)
\* succeeds and adds one row, whose uuid is generated and differs from the
\* uuid of every row that was in the table.
C4_GeneratedUuidFresh ==
    (last.op = "create_device" /\ NoUuid(last.values))
    => /\ last.exc = OK
       /\ \E d \in last.ret :
            /\ d.uuid \in UUIDs \ UuidsOf(last.pre)
            /\ store = last.pre \cup {d}

\* C5: Device.get_by_uuid(U) for the uuid of an existing device returns an
\* object whose fields equal the stored values, with an empty change-set;
\* for any other uuid it fails with DeviceNotFound.
C5_GetByUuidReturnsStored ==
    last.op = "Device.get_by_uuid" =>
        IF Named(last.pre, last.ident) # {}
        THEN /\ last.exc = OK
             /\ \E o \in last.obj : \E r \in Named(last.pre, last.ident) :
                    /\ o.changes = {}
                    /\ \A f \in fields \cap Columns : o.attrs[f] = r[f]
        ELSE last.exc = "DeviceNotFound"

\* C6: update_device with 'uuid' among its values fails with
\* InvalidParameterValue whatever the identifier and the other values and
\* leaves the table as it was; no update_device changes the uuid of a row.
C6_UuidNeverOverwritten ==
    last.op = "update_device" =>
        /\ "uuid" \in DOMAIN last.values =>
                (last.exc = "InvalidParameterValue" /\ store = last.pre)
        /\ UuidsOf(store) = UuidsOf(last.pre)
        /\ Cardinality(store) = Cardinality(last.pre)

C6_Witness ==
    /\ last.op = "update_device"
    /\ "uuid" \in DOMAIN last.values
    /\ "name" \in DOMAIN last.values
    /\ \E r \in Named(last.pre, last.ident) : r.uuid # last.values["uuid"]

\* C7: destroy_device on an id or uuid that names no device fails with
\* DeviceNotFound and removes nothing; on an existing device it removes that
\* one row and no other; a get on an identifier that names no device fails
\* with DeviceNotFound, and so does every get on the identifier of a
\* destroyed device until a create_device makes a device with it again.
C7_DestroyThenNotFound ==
    /\ (last.op = "destroy_device" /\ last.path # "none") =>
            IF Named(last.pre, last.ident) = {}
            THEN last.exc = "DeviceNotFound" /\ store = last.pre
            ELSE /\ last.exc = OK
                 /\ Cardinality(Named(last.pre, last.ident)) = 1
                 /\ store = last.pre \ Named(last.pre, last.ident)
    /\ last.op \in {"get_device_by_id", "get_device_by_uuid"} =>
            /\ Named(store, last.ident) = {} => last.exc = "DeviceNotFound"
            /\ last.ident = gone => last.exc = "DeviceNotFound"

\* C8: update_device, destroy_device and Device.get resolve an identifier by
\* its shape alone: an integer-shaped one is looked up by id and only rows
\* with that id are touched, a UUID-shaped one by uuid, and any other fails
\* with InvalidIdentity and leaves the table as it was.
C8_IdentityByShape ==
    (\/ last.op \in {"destroy_device", "Device.get"}
     \/ last.op = "update_device" /\ "uuid" \notin DOMAIN last.values)
    => LET hit == Named(last.pre, last.ident)
           touched == (last.pre \ store)
                        \cup (IF last.op = "Device.get" THEN last.ret ELSE {})
       IN  IF is_int_like(last.ident)
           THEN /\ last.path = "id"
                /\ touched \subseteq hit
                /\ hit = {} <=> last.exc = "DeviceNotFound"
           ELSE IF is_uuid_like(last.ident)
           THEN /\ last.path = "uuid"
                /\ touched \subseteq hit
                /\ hit = {} <=> last.exc = "DeviceNotFound"
           ELSE /\ last.path = "none"
                /\ last.exc = "InvalidIdentity"
                /\ store = last.pre

C8_Witness ==
    /\ last.op = "destroy_device"
    /\ last.ident = "not-an-id"
    /\ last.exc = "InvalidIdentity"
    /\ Cardinality(store) >= 2

\* C9: the ids of the rows are pairwise different, and no update_device
\* leaves a row (followed by its uuid) with an id other than the one it had.
C9_IdNeverChanges ==
    /\ \A a, b \in store : a.id = b.id => a = b
    /\ last.op = "update_device" =>
            \A old \in last.pre, new \in store :
                old.uuid = new.uuid => old.id = new.id

\* the outcome of the calls of processes a and b made one after the other
Serial(a, b) ==
    LET first == update_device(store0, proc[a].ident, proc[a].values)
        second == update_device(first.rows, proc[b].ident, proc[b].values)
    IN  /\ store = second.rows
        /\ proc[a].exc = first.exc
        /\ proc[b].exc = second.exc

\* C10: when two concurrent update_device calls have ended, the table and
\* both outcomes are those of the two calls made one after the other in
\* some order.
C10_UpdatesSerialized ==
    (\A p \in Procs : proc[p].pc = "done" /\ proc[p].op = "update_device")
    => (Serial(1, 2) \/ Serial(2, 1))

C10_Witness ==
    /\ \A p \in Procs : proc[p].pc = "done" /\ proc[p].exc = OK
    /\ proc[1].values = [name |-> "sensor2"]
    /\ proc[2].values = [desc |-> "temp sensor"]
    /\ Named(store0, proc[1].ident) = Named(store0, proc[2].ident)
    /\ \E r \in store : r.name = "sensor2" /\ r.desc = "temp sensor"

\* the call of process p made alone on the table rows
CallOn(rows, p) ==
    IF proc[p].op = "destroy_device"
    THEN destroy_device(rows, proc[p].ident)
    ELSE update_device(rows, proc[p].ident, proc[p].values)

\* the table and both outcomes are those of a's call followed by b's call
SerialCalls(a, b) ==
    LET first == CallOn(store0, a)
        second == CallOn(first.rows, b)
    IN  /\ store = second.rows
        /\ proc[a].exc = first.exc
        /\ proc[b].exc = second.exc

\* C11: an update_device (no uuid in its values) whose identifier names no
\* row when its lock query runs fails with DeviceNotFound and changes
\* nothing; an update_device that races a destroy_device either takes
\* effect in full before the delete or fails with DeviceNotFound, so the two
\* calls end as if made one after the other; a destroyed row is never in
\* the table again and an update never adds a row.
C11_UpdateOfMissingDevice ==
    /\ \A p \in Procs :
          (/\ proc[p].pc = "done" /\ proc[p].op = "update_device"
           /\ "uuid" \notin DOMAIN proc[p].values
           /\ Named(store0, proc[p].ident) = {}
           /\ proc[3 - p].pc = "idle")
          => (proc[p].exc = "DeviceNotFound" /\ store = store0)
    /\ \A p \in Procs :
          (/\ proc[p].pc = "done" /\ proc[p].op = "update_device"
           /\ "uuid" \notin DOMAIN proc[p].values
           /\ proc[3 - p].pc = "done" /\ proc[3 - p].op = "destroy_device")
          => /\ SerialCalls(p, 3 - p) \/ SerialCalls(3 - p, p)
             /\ (proc[3 - p].exc = OK
                  /\ Named(store0, proc[p].ident) = Named(store0, proc[3 - p].ident))
                 => \/ proc[p].exc = "DeviceNotFound"
                    \/ SerialCalls(p, 3 - p)
    /\ UuidsOf(store) \subseteq UuidsOf(store0)
    /\ \A p \in Procs :
          (proc[p].pc = "done" /\ proc[p].op = "destroy_device" /\ proc[p].exc = OK)
          => Cardinality(store) < Cardinality(store0)

C11_Witness ==
    /\ proc[1].pc = "done" /\ proc[1].op = "destroy_device" /\ proc[1].exc = OK
    /\ proc[2].pc = "done" /\ proc[2].op = "update_device"
    /\ proc[2].values = [name |-> "sensor2"]
    /\ proc[2].exc = "DeviceNotFound"
    /\ Named(store0, proc[2].ident) = Named(store0, proc[1].ident)
    /\ Named(store0, proc[2].ident) # {}

Reads == {"get_device_by_id", "get_device_by_uuid", "get_device_list"}

\* C12: a row that get_device_by_id, get_device_by_uuid or get_device_list
\* returns while another process runs update_device is the device as it was
\* before the update or as it is after it: of the columns the update
\* changes, the row has the new value in none or in all.
C12_ReadsNeverTorn ==
    \A p \in Procs :
        (/\ proc[p].pc = "done" /\ proc[p].op \in Reads
         /\ proc[3 - p].op = "update_device")
        => \A r \in proc[p].ref :
             \E old \in store0 :
               /\ old.uuid = r.uuid
               /\ IF old \in Named(store0, proc[3 - p].ident)
                  THEN LET values == proc[3 - p].values
                           updated == {c \in DOMAIN values \cap Columns :
                                         values[c] # old[c]}
                           seen == {c \in updated : r[c] = values[c]}
                       IN  /\ seen = {} \/ seen = updated
                           /\ \A c \in Columns \ updated : r[c] = old[c]
                  ELSE r = old

C12_Witness ==
    /\ proc[1].pc = "locked"
    /\ proc[1].values = [name |-> "sensor2", desc |-> "temp sensor"]
    /\ proc[2].pc = "done" /\ proc[2].op = "get_device_by_uuid"
    /\ proc[2].ref = proc[1].ref
    /\ proc[2].ref # {}

\* C13: Device.create hands create_device exactly the change-set of the
\* instance, and when create_device has inserted the row the call succeeds
\* with every declared field of the instance equal to the returned row
\* (the assigned id and the generated uuid among them) and an empty
\* change-set.
C13_CreateFillsInstance ==
    last.op = "Device.create" =>
        /\ \A self \in last.obj : last.values = obj_get_changes(self)
        /\ \A row \in last.ret :
              /\ last.exc = OK
              /\ row \in store
              /\ \A f \in fields \cap Columns :
                    f \in DOMAIN dev.attrs /\ dev.attrs[f] = row[f]
              /\ dev.changes = {}

\* C14: Device.save hands update_device the uuid of the instance and
\* exactly the fields of its change-set with their values, and writes no
\* other column; after a successful save the change-set is empty and the
\* fields are as they were, and a save of an instance whose change-set is
\* empty (as the save before it left it) changes nothing in the table.
C14_SaveWritesChanges ==
    last.op = "Device.save" =>
        \A self \in last.obj :
            /\ last.ident = self.attrs["uuid"]
            /\ last.values = obj_get_changes(self)
            /\ \A old \in last.pre, new \in store :
                  old.uuid = new.uuid =>
                    \A c \in Columns :
                        IF c \in self.changes /\ last.exc = OK
                           /\ old.uuid = last.ident
                        THEN new[c] = self.attrs[c]
                        ELSE new[c] = old[c]
            /\ UuidsOf(store) = UuidsOf(last.pre)
            /\ last.exc = OK => dev = obj_reset_changes(self)
            /\ self.changes = {} => store = last.pre

C14_Witness ==
    /\ last.op = "Device.save"
    /\ last.exc = OK
    /\ last.values = [name |-> "sensor2"]
    /\ store # last.pre
    /\ dev.changes = {}

\* C15: Device.refresh of an instance whose uuid names a stored device
\* succeeds and leaves the table as it was; it assigns exactly the fields
\* whose stored value differed from the value on the instance, and
\* afterwards every declared field of the instance has the stored value.
C15_RefreshLoadsStored ==
    last.op = "Device.refresh" =>
        /\ store = last.pre
        /\ \A row \in last.ret : \A self \in last.obj :
              /\ last.exc = OK
              /\ DOMAIN last.values =
                    {f \in fields \cap Columns :
                        f \notin DOMAIN self.attrs \/ self.attrs[f] # row[f]}
              /\ \A f \in fields \cap Columns :
                    f \in DOMAIN dev.attrs /\ dev.attrs[f] = row[f]

\* the page of the listing that a request is to return
PageOf(request) ==
    get_device_list(store, {validate_limit(request.limit)},
                    UNION {Named(store, m) : m \in request.marker},
                    request.sort_key, request.sort_dir)

\* a request that names a valid sort direction and no marker or the uuid of
\* a stored device
Answerable(request) ==
    /\ request.op # "none"
    /\ request.sort_dir \in SortDirs_valid
    /\ \A m \in request.marker : Named(store, m) # {}

\* C16: get_all and detail answer with the page of the listing, and the
\* response has a next link, which carries the uuid of the last returned
\* device, exactly when as many devices are returned as the normalized
\* limit; with fewer there is no next link, so that following next links
\* over an unchanging table ends.
C16_NextLinkWhenFull ==
    Answerable(resp) =>
        /\ resp.exc = OK
        /\ Len(resp.devices) = Len(PageOf(resp))
        /\ resp.next # {} <=> Len(resp.devices) = validate_limit(resp.limit)
        /\ \A m \in resp.next :
              /\ resp.devices # <<>>
              /\ m = resp.devices[Len(resp.devices)].attrs["uuid"]

\* the uuids of the devices of a response, and of the rows of a page
UuidSeq(seq) == [i \in 1..Len(seq) |-> seq[i].uuid]

\* C17: get_all and detail resolve a marker uuid before they list: with a
\* marker that names no device the request fails with DeviceNotFound and
\* Device.list is not called; with the uuid of a stored device the response
\* is the page that starts strictly after that device; with no marker it is
\* the page that starts at the first record.
C17_MarkerResolvedFirst ==
    (resp.op # "none" /\ resp.sort_dir \in SortDirs_valid) =>
        IF \E m \in resp.marker : Named(store, m) = {}
        THEN resp.exc = "DeviceNotFound" /\ ~resp.listed
        ELSE /\ resp.exc = OK
             /\ resp.listed
             /\ [i \in 1..Len(resp.devices) |-> resp.devices[i].attrs["uuid"]]
                    = UuidSeq(PageOf(resp))
             /\ \A m \in resp.marker :
                    \A i \in 1..Len(resp.devices) :
                        resp.devices[i].attrs["uuid"] # m

Wrapped ==
    fun.name \in {"wrap_wsme_controller_exception",
                  "wrap_pecan_controller_exception"}

\* C18: when a controller method raises, an exception that is no
\* IoTException or whose code is 500 or more gives the client the fixed
\* obfuscated text with the generated correlation id, whatever the message
\* of the exception; an IoTException with a code below 500 gives the client
\* that code and the message of the exception as it is.
C18_ServerErrorsObfuscated ==
    Wrapped =>
        IF fun.excp.cls \notin IoTClasses \/ code(fun.excp.cls) >= 500
        THEN /\ fun.response.text = OBFUSCATED_MSG \o fun.id
             /\ fun.response.text # fun.excp.message
             /\ fun.response.status >= 500
        ELSE /\ fun.response.status = code(fun.excp.cls)
             /\ fun.response.text = fun.excp.message

C18_Witness ==
    /\ Wrapped
    /\ fun.excp.cls = "KeystoneFailure"
    /\ fun.excp.message = "OperationalError: (1045) access denied for iot@10.77.206.83"
    /\ fun.response.status = 500

\* the HTTP class the error taxonomy gives each error kind
Taxonomy ==
    [DeviceNotFound |-> 404,
     DeviceAlreadyExists |-> 409,
     Conflict |-> 409,
     InvalidIdentity |-> 400,
     InvalidUUID |-> 400,
     InvalidParameterValue |-> 400,
     Invalid |-> 400,
     OperationNotPermitted |-> 403,
     NotAuthorized |-> 403]

\* C19: every error kind of the taxonomy carries the code the taxonomy
\* gives it (DeviceNotFound 404; DeviceAlreadyExists, Conflict 409;
\* InvalidIdentity, InvalidUUID, InvalidParameterValue, Invalid 400;
\* OperationNotPermitted, NotAuthorized 403), and the controller exception
\* boundary answers it with that code and its own message, not as a server
\* error.
C19_TaxonomyCodes ==
    (Wrapped /\ fun.excp.cls \in DOMAIN Taxonomy) =>
        /\ code(fun.excp.cls) = Taxonomy[fun.excp.cls]
        /\ fun.response.status = Taxonomy[fun.excp.cls]
        /\ fun.response.status < 500
        /\ fun.response.text = fun.excp.message

C19_Witness ==
    /\ fun.name = "wrap_wsme_controller_exception"
    /\ fun.excp.cls = "DeviceNotFound"
    /\ fun.response = ClientResponse(404, "Device 5d12f6fd could not be found.")

\* the types the coercion is declared to accept
DeclaredTypes == {"integer", "float", "boolean", "string", "datetime"}

\* C20: the coercion of a Query value to the type the Query names returns
\* the converted value for each of the types integer, float, boolean,
\* string and datetime when the value converts, and fails with a client
\* error when the value does not convert or the type is none of these.
C20_QueryCoercion ==
    (fun.name = "_get_value_as_type" /\ fun.type # "") =>
        IF /\ fun.type \in DeclaredTypes
           /\ fun.value \in DOMAIN type_converters[fun.type]
        THEN /\ fun.result.exc = OK
             /\ fun.result.converted = type_converters[fun.type][fun.value]
        ELSE fun.result.exc = "ClientSideError"

\* C21: a call of device_create, device_list, device_delete or device_show
\* on the conductor API client is delivered as one request of that name
\* with its keyword arguments to the handler method of the same name, which
\* accepts those arguments and runs the operation on the driver; the caller
\* is blocked until the handler's result or error, or a timeout, comes
\* back.
C21_ConductorDispatch ==
    /\ rpc.pc = "blocked" =>
            /\ Len(rpc.queue) + Len(rpc.handled) = 1
            /\ \A i \in 1..Len(rpc.queue) :
                    rpc.queue[i] = [name |-> rpc.op, kwargs |-> rpc.kwargs]
    /\ (rpc.pc = "returned" /\ rpc.exc # "MessagingTimeout") =>
            /\ rpc.handled = <<[name |-> rpc.op, kwargs |-> rpc.kwargs]>>
            /\ DOMAIN rpc.kwargs = HandlerArgs[rpc.op]
            /\ rpc.driver # <<>>

\* the read operations of the storage backend and of Device
ReadOps ==
    {"get_device_by_id", "get_device_by_uuid", "get_device_list",
     "Device.get", "Device.get_by_uuid", "Device.list", "Device.refresh"}

Times(row, seq) == Cardinality({i \in 1..Len(seq) : seq[i] = row})

\* C23: the sort keys of a listing end with id and hold id once, a sort_key
\* other than id standing before it; and the devices that have the same
\* value of sort_key as another device are on the pages at most once while
\* the client pages with a limit of 1 or more, and once when the last page
\* has come.
C23_TiesPagedOnce ==
    /\ \A k \in SortKeys :
            LET keys == sort_keys(k)
            IN  /\ keys[Len(keys)] = "id"
                /\ Cardinality({i \in 1..Len(keys) : keys[i] = "id"}) = 1
                /\ (k # NULL /\ k # "id") => keys = <<k, "id">>
    /\ (pager.phase # "idle" /\ pager.sort_key # NULL) =>
            \A a \in store :
                (\E b \in store : b # a /\ b[pager.sort_key] = a[pager.sort_key])
                => /\ Times(a, pager.seen) <= 1
                   /\ pager.phase = "done" => Times(a, pager.seen) = 1

\* the callers whose save of field f on the device with uuid u committed
Savers(u, f) ==
    {p \in Procs : /\ proc[p].at > 0
                   /\ proc[p].ident = u
                   /\ f \in DOMAIN proc[p].values}

\* the row of the device with uuid u holds, in every field a save wrote, the
\* value of the save that committed last
LastSaveWins(u) ==
    \A r \in Named(store, u) :
        \A f \in Columns :
            \A p \in Savers(u, f) :
                (\A q \in Savers(u, f) : proc[q].at <= proc[p].at)
                => r[f] = proc[p].values[f]

\* C24: two callers load the same stored device, each changes a field and
\* saves, in any interleaving: both get their instance and both saves go
\* through, and afterwards the row holds both changes if the fields differ
\* and the change of the later save if the field is the same.
C24_ConcurrentSaves ==
    \A p, q \in Procs :
        (/\ p # q
         /\ proc[p].op = "Device.get_by_uuid"
         /\ proc[q].op = "Device.get_by_uuid"
         /\ proc[p].ident = proc[q].ident
         /\ proc[p].ident \in UuidsOf(store0)
         /\ proc[p].pc = "done"
         /\ proc[q].pc = "done")
        => /\ proc[p].exc = OK
           /\ proc[p].at > 0
           /\ LastSaveWins(proc[p].ident)

\* C25: when two concurrent destroy_device calls that name the same stored
\* device (each by its id or by its uuid) have ended, one has succeeded and
\* the other has failed with DeviceNotFound, and the table is the one they
\* started from without that device.
C25_OneDestroyWins ==
    (/\ \A p \in Procs : proc[p].pc = "done" /\ proc[p].op = "destroy_device"
     /\ Named(store0, proc[1].ident) # {}
     /\ Named(store0, proc[1].ident) = Named(store0, proc[2].ident))
    => /\ \E p \in Procs : /\ proc[p].exc = OK
                           /\ proc[3 - p].exc = "DeviceNotFound"
       /\ store = store0 \ Named(store0, proc[1].ident)

\* one destroy by id and one by uuid of the same device, beside another
\* device in the table
C25_Witness ==
    /\ \A p \in Procs : proc[p].pc = "done" /\ proc[p].op = "destroy_device"
    /\ is_int_like(proc[1].ident)
    /\ is_uuid_like(proc[2].ident)
    /\ Named(store0, proc[1].ident) # {}
    /\ Named(store0, proc[1].ident) = Named(store0, proc[2].ident)
    /\ proc[2].exc = OK
    /\ proc[1].exc = "DeviceNotFound"
    /\ Cardinality(store0) = 2
    /\ Cardinality(store) = 1

\* C26: a create_device that fails with DeviceAlreadyExists was given the
\* uuid of a row of the table, and a create_device whose values bring no
\* uuid, or one that no row has, succeeds, whatever else the values hold.
C26_OnlyUuidCollides ==
    last.op = "create_device" =>
        LET taken == /\ ~NoUuid(last.values)
                     /\ last.values["uuid"] \in UuidsOf(last.pre)
        IN  /\ last.exc = "DeviceAlreadyExists" => taken
            /\ ~taken => last.exc = OK

====
